---- MODULE Spec2Model ----
(***************************************************************************)
(* Model of the PPC analyzer core: MetricsAnalysisEngine                   *)
(* (src/src/analysis_engine.py) and RecommendationEngine                   *)
(* (src/src/recommendation_engine.py), driven in the order main.py uses    *)
(* them.                                                                   *)
(*                                                                         *)
(* A pandas scalar is a Cell record [t, s, n, d]:                          *)
(*   t = "num"   the finite number n/d (d > 0, lowest terms)               *)
(*   t = "text"  the string s                                              *)
(*   t = "nan"   NaN / None / NaT (a missing value)                        *)
(*   t = "inf", "-inf"  the two float infinities                           *)
(*   t = "ts"    the Timestamp parsed from the string s                    *)
(* Finite floats are modelled as exact rationals: the rounding of binary   *)
(* floating point is abstracted away, its special values are not.          *)
(* A DataFrame is [cols |-> set of column names, rows |-> sequence of      *)
(* functions from cols to Cell].                                           *)
(***************************************************************************)
EXTENDS Integers, Sequences, FiniteSets, TLC

VARIABLES
    input,                   \* the caller's dataset, the `dataframe` argument
    enginePc,                \* "none" | "ready" | "raised": MetricsAnalysisEngine.__init__
    df,                      \* MetricsAnalysisEngine.self.df
    kpi_summary,             \* result of get_campaign_performance_summary: [pc, val]
    keyword_performance_df,  \* result of get_keyword_performance: [pc, val]
    recPc,                   \* "none" | "ready" | "returned" | "raised": RecommendationEngine
    kpi_data,                \* RecommendationEngine.self.kpi_data
    keyword_data,            \* RecommendationEngine.self.keyword_data
    recommendations,         \* RecommendationEngine.self.recommendations
    returned,                \* the list the last generate_recommendations call returned
    calls,                   \* number of generate_recommendations calls on the instance
    formatted,               \* result of get_formatted_recommendations: [pc, val]
    request,                 \* upload_ppc_reports: request.files.getlist("files[]")
    uploadPc,                \* upload_ppc_reports: where the handler is
    fileIdx,                 \* upload_ppc_reports: position of `for file in files`
    parsed,                  \* upload_ppc_reports: the local df of the iteration
    all_data_dfs,            \* upload_ppc_reports: all_data_dfs
    processed_filenames,     \* upload_ppc_reports: processed_filenames
    errors,                  \* upload_ppc_reports: errors
    upload_folder,           \* the names of the files in app.config["UPLOAD_FOLDER"]
    combined_df,             \* upload_ppc_reports: combined_df
    response                 \* upload_ppc_reports: the response returned

engineVars == <<input, enginePc, df, kpi_summary, keyword_performance_df, recPc,
                kpi_data, keyword_data, recommendations, returned, calls, formatted>>

uploadVars == <<request, uploadPc, fileIdx, parsed, all_data_dfs, processed_filenames,
                errors, upload_folder, combined_df, response>>

vars == <<engineVars, uploadVars>>

----------------------------------------------------------------------------
(* Bounds of the model *)

MaxRows == 2
MaxCalls == 2
MaxFiles == 2

----------------------------------------------------------------------------
(* Scalars *)

Abs(x) == IF x < 0 THEN -x ELSE x

RECURSIVE GCD(_, _)
GCD(a, b) == IF b = 0 THEN a ELSE GCD(b, a % b)

Cell(t, s, n, d) == [t |-> t, s |-> s, n |-> n, d |-> d]

\* the finite number n/d, d # 0, in lowest terms with a positive denominator
Ratio(n, d) ==
    LET g == GCD(Abs(n), Abs(d))
        sgn == IF d < 0 THEN -1 ELSE 1
    IN  Cell("num", "", sgn * (n \div g), Abs(d) \div g)

Num(n) == Cell("num", "", n, 1)
Text(s) == Cell("text", s, 0, 1)
NaN == Cell("nan", "", 0, 1)
PosInf == Cell("inf", "", 0, 1)
NegInf == Cell("-inf", "", 0, 1)
Timestamp(s) == Cell("ts", s, 0, 1)

\* float division x / y of two numeric cells: IEEE semantics for a zero divisor
FloatDiv(x, y) ==
    IF x.t # "num" \/ y.t # "num" THEN NaN
    ELSE IF y.n = 0
         THEN IF x.n > 0 THEN PosInf ELSE IF x.n < 0 THEN NegInf ELSE NaN
         ELSE Ratio(x.n * y.d, x.d * y.n)

\* float multiplication by the integer k > 0
FloatTimes(x, k) == IF x.t = "num" THEN Ratio(x.n * k, x.d) ELSE x

\* comparisons of a cell with the integer k; any comparison with NaN is False
GreaterThan(c, k) ==
    \/ c.t = "inf"
    \/ c.t = "num" /\ c.n > k * c.d

LessThan(c, k) ==
    \/ c.t = "-inf"
    \/ c.t = "num" /\ c.n < k * c.d

----------------------------------------------------------------------------
(* Column names *)

NumericCols == <<"Impressions", "Clicks", "Spend", "Sales", "Orders">>
CampaignCol == "Campaign Name"
KeywordCol == "Keyword or Product Targeting"
DateCol == "Date"

NumericColSet == {NumericCols[i] : i \in 1..Len(NumericCols)}
InputCols == NumericColSet \cup {CampaignCol, KeywordCol, DateCol}

TotalCols == <<"Total_Impressions", "Total_Clicks", "Total_Spend", "Total_Sales",
               "Total_Orders">>
RatioCols == <<"CTR", "CPC", "CVR", "ACOS", "ROAS">>
GroupedCols == {CampaignCol, KeywordCol}
                 \cup {TotalCols[i] : i \in 1..5} \cup {RatioCols[i] : i \in 1..5}

SummaryTotals == <<"Total Impressions", "Total Clicks", "Total Spend", "Total Sales",
                   "Total Orders">>
SummaryRatios == <<"Click-Through Rate (CTR)", "Cost Per Click (CPC)",
                   "Conversion Rate (CVR)", "Advertising Cost of Sales (ACOS)",
                   "Return on Ad Spend (ROAS)">>
SummaryKeys == {SummaryTotals[i] : i \in 1..5} \cup {SummaryRatios[i] : i \in 1..5}

----------------------------------------------------------------------------
(* DataFrames *)

Table(cols, rows) == [cols |-> cols, rows |-> rows]
EmptyTable == Table({}, <<>>)

\* a value that is not a DataFrame (a list, a dict, None): isinstance fails on it
NonTabular == [tabular |-> FALSE, cols |-> {}, rows |-> <<>>]
DataFrame(cols, rows) == [tabular |-> TRUE, cols |-> cols, rows |-> rows]

\* df[col] = values: the column is replaced, or created when it is absent;
\* values holds one cell per row
SetColumn(t, col, values) ==
    Table(t.cols \cup {col},
          [i \in 1..Len(t.rows) |->
              [c \in t.cols \cup {col} |->
                  IF c = col THEN values[i] ELSE t.rows[i][c]]])

\* Series.sum(): NaN is skipped, the sum of no cell is 0
RECURSIVE SeriesSum(_, _, _)
SeriesSum(rows, col, i) ==
    IF i > Len(rows) THEN 0
    ELSE (IF rows[i][col].t = "num" THEN rows[i][col].n ELSE 0)
           + SeriesSum(rows, col, i + 1)

\* fillna(0) on one cell
FillNa(c) == IF c.t = "nan" THEN Num(0) ELSE c

\* replace([np.inf, -np.inf], np.nan) on one cell
ReplaceInf(c) == IF c.t \in {"inf", "-inf"} THEN NaN ELSE c

\* the replace of line 129 left out: the infinities stay in the table
ReplaceInfTable_Skip(t) == t

\* keyword_data.replace([np.inf, -np.inf], np.nan, inplace=True)
ReplaceInfTable(t) ==
    Table(t.cols,
          [i \in 1..Len(t.rows) |-> [c \in t.cols |-> ReplaceInf(t.rows[i][c])]])

\* keyword_data.fillna(0, inplace=True)
FillNaTable(t) ==
    Table(t.cols, [i \in 1..Len(t.rows) |-> [c \in t.cols |-> FillNa(t.rows[i][c])]])

----------------------------------------------------------------------------
(* Parsing done by pandas *)

\* the strings of the model that parse as a number, with the number they denote
NumericText == ("60" :> 60) @@ ("7" :> 7)

\* the strings of the model that parse as a date
ParseableDates == {"2024-01-05", "2024-01-06"}

\* pd.to_numeric(x, errors='coerce') on one cell
ToNumeric_TextIsNaN(c) == IF c.t = "num" THEN c ELSE NaN

ToNumeric(c) ==
    IF c.t = "num" THEN c
    ELSE IF c.t = "text" /\ c.s \in DOMAIN NumericText THEN Num(NumericText[c.s])
    ELSE NaN

\* pd.to_datetime raises when some string of the column is no date
DateColumnParses(t) ==
    \A i \in 1..Len(t.rows) :
        t.rows[i][DateCol].t = "text" => t.rows[i][DateCol].s \in ParseableDates

\* pd.to_datetime on one cell of a column that parses
ToDatetime(c) == IF c.t = "text" THEN Timestamp(c.s) ELSE c

----------------------------------------------------------------------------
(* MetricsAnalysisEngine *)

\* self.df before __init__ has assigned it
NoDF == EmptyTable

\* one iteration of the loop of _preprocess_data
PreprocessColumn(t, col) ==
    IF col \in t.cols
    THEN SetColumn(t, col, [i \in 1..Len(t.rows) |-> FillNa(ToNumeric(t.rows[i][col]))])
    ELSE SetColumn(t, col, [i \in 1..Len(t.rows) |-> Num(0)])

\* self.df['Date'] = pd.to_datetime(self.df['Date']), when it does not raise
ConvertDates(t) ==
    SetColumn(t, DateCol, [i \in 1..Len(t.rows) |-> ToDatetime(t.rows[i][DateCol])])

RECURSIVE PreprocessNumeric(_, _)
PreprocessNumeric(t, i) ==
    IF i > Len(NumericCols) THEN t
    ELSE PreprocessNumeric(PreprocessColumn(t, NumericCols[i]), i + 1)

\* _preprocess_data without the try/except around pd.to_datetime
PreprocessData_NoTry(t) ==
    LET t5 == PreprocessNumeric(t, 1)
    IN  IF DateCol \in t5.cols
        THEN IF DateColumnParses(t5)
             THEN [raised |-> FALSE, df |-> ConvertDates(t5)]
             ELSE [raised |-> TRUE, df |-> t5]
        ELSE [raised |-> FALSE, df |-> t5]

\* _preprocess_data: [raised, df]
PreprocessData(t) ==
    LET t5 == PreprocessNumeric(t, 1)
    IN  IF DateCol \in t5.cols
        THEN IF DateColumnParses(t5)
             THEN [raised |-> FALSE, df |-> ConvertDates(t5)]
             ELSE [raised |-> FALSE, df |-> t5]
        ELSE [raised |-> FALSE, df |-> t5]

\* __init__ with `self.df = dataframe`, no copy: _preprocess_data then works on
\* the caller's object
EngineInit_NoCopy(dataframe) ==
    IF ~dataframe.tabular
    THEN [pc |-> "raised", df |-> NoDF, dataframe |-> dataframe]
    ELSE LET p == PreprocessData(Table(dataframe.cols, dataframe.rows))
         IN  [pc |-> IF p.raised THEN "raised" ELSE "ready", df |-> p.df,
              dataframe |-> DataFrame(p.df.cols, p.df.rows)]

\* __init__: [pc, df, dataframe], dataframe the caller's object after the call;
\* self.df is a copy, so _preprocess_data leaves the caller's object alone
EngineInit(dataframe) ==
    IF ~dataframe.tabular
    THEN [pc |-> "raised", df |-> NoDF, dataframe |-> dataframe]
    ELSE LET p == PreprocessData(Table(dataframe.cols, dataframe.rows))
         IN  [pc |-> IF p.raised THEN "raised" ELSE "ready", df |-> p.df,
              dataframe |-> dataframe]

\* get_total_impressions .. get_total_orders
GetTotal(t, col) == Num(SeriesSum(t.rows, col, 1))

calculate_ctr(t) ==
    LET impressions == GetTotal(t, "Impressions")
        clicks == GetTotal(t, "Clicks")
    IN  IF GreaterThan(impressions, 0)
        THEN FloatTimes(FloatDiv(clicks, impressions), 100) ELSE Num(0)

calculate_cpc(t) ==
    LET spend == GetTotal(t, "Spend")
        clicks == GetTotal(t, "Clicks")
    IN  IF GreaterThan(clicks, 0) THEN FloatDiv(spend, clicks) ELSE Num(0)

calculate_cvr(t) ==
    LET orders == GetTotal(t, "Orders")
        clicks == GetTotal(t, "Clicks")
    IN  IF GreaterThan(clicks, 0)
        THEN FloatTimes(FloatDiv(orders, clicks), 100) ELSE Num(0)

calculate_acos(t) ==
    LET spend == GetTotal(t, "Spend")
        sales == GetTotal(t, "Sales")
    IN  IF GreaterThan(sales, 0)
        THEN FloatTimes(FloatDiv(spend, sales), 100) ELSE Num(0)

calculate_roas(t) ==
    LET sales == GetTotal(t, "Sales")
        spend == GetTotal(t, "Spend")
    IN  IF GreaterThan(spend, 0) THEN FloatDiv(sales, spend) ELSE Num(0)

get_campaign_performance_summary(t) ==
    [k \in SummaryKeys |->
        CASE k = "Total Impressions" -> GetTotal(t, "Impressions")
          [] k = "Total Clicks" -> GetTotal(t, "Clicks")
          [] k = "Total Spend" -> GetTotal(t, "Spend")
          [] k = "Total Sales" -> GetTotal(t, "Sales")
          [] k = "Total Orders" -> GetTotal(t, "Orders")
          [] k = "Click-Through Rate (CTR)" -> calculate_ctr(t)
          [] k = "Cost Per Click (CPC)" -> calculate_cpc(t)
          [] k = "Conversion Rate (CVR)" -> calculate_cvr(t)
          [] k = "Advertising Cost of Sales (ACOS)" -> calculate_acos(t)
          [] k = "Return on Ad Spend (ROAS)" -> calculate_roas(t)]

\* the summary before it is computed
NoSummary == [k \in SummaryKeys |-> NaN]

----------------------------------------------------------------------------
(* get_keyword_performance *)

\* lexicographic order of the strings the model uses as names
TextOrder == <<"A", "B", "k1", "k2">>
Rank(s) == CHOOSE i \in 1..Len(TextOrder) : TextOrder[i] = s

KeyLeq(x, y) ==
    \/ Rank(x[1].s) < Rank(y[1].s)
    \/ Rank(x[1].s) = Rank(y[1].s) /\ Rank(x[2].s) <= Rank(y[2].s)

\* groupby drops the rows with a missing key (dropna=True, the default) ...
GroupKeys(t, campaign_column, keyword_column) ==
    {<<t.rows[i][campaign_column], t.rows[i][keyword_column]>> :
        i \in {j \in 1..Len(t.rows) :
                  /\ t.rows[j][campaign_column].t # "nan"
                  /\ t.rows[j][keyword_column].t # "nan"}}

\* ... and sorts the groups by key (sort=True, the default)
RECURSIVE SortKeys(_)
SortKeys(S) ==
    IF S = {} THEN <<>>
    ELSE LET m == CHOOSE x \in S : \A y \in S : KeyLeq(x, y)
         IN  <<m>> \o SortKeys(S \ {m})

\* agg(..., 'sum') of one column over the rows of one group
RECURSIVE GroupSum(_, _, _, _, _, _)
GroupSum(rows, col, key, campaign_column, keyword_column, i) ==
    IF i > Len(rows) THEN 0
    ELSE (IF /\ <<rows[i][campaign_column], rows[i][keyword_column]>> = key
             /\ rows[i][col].t = "num"
          THEN rows[i][col].n ELSE 0)
           + GroupSum(rows, col, key, campaign_column, keyword_column, i + 1)

\* groupby([campaign_column, keyword_column]).agg(...).reset_index()
GroupByAgg(t, campaign_column, keyword_column) ==
    LET keys == SortKeys(GroupKeys(t, campaign_column, keyword_column))
        cols == {campaign_column, keyword_column} \cup {TotalCols[i] : i \in 1..5}
        total(col, key) ==
            Num(GroupSum(t.rows, col, key, campaign_column, keyword_column, 1))
    IN  Table(cols,
              [g \in 1..Len(keys) |->
                  [c \in cols |->
                      CASE c = campaign_column -> keys[g][1]
                        [] c = keyword_column -> keys[g][2]
                        [] c = "Total_Impressions" -> total("Impressions", keys[g])
                        [] c = "Total_Clicks" -> total("Clicks", keys[g])
                        [] c = "Total_Spend" -> total("Spend", keys[g])
                        [] c = "Total_Sales" -> total("Sales", keys[g])
                        [] c = "Total_Orders" -> total("Orders", keys[g])]])

RowCTR(r) == FloatTimes(FloatDiv(r["Total_Clicks"], r["Total_Impressions"]), 100)
RowCPC(r) == FloatDiv(r["Total_Spend"], r["Total_Clicks"])
RowCVR(r) == FloatTimes(FloatDiv(r["Total_Orders"], r["Total_Clicks"]), 100)
RowACOS(r) == FloatTimes(FloatDiv(r["Total_Spend"], r["Total_Sales"]), 100)
RowROAS(r) == FloatDiv(r["Total_Sales"], r["Total_Spend"])

\* lines 108-112: the numeric columns are created, as zeros, where absent
EnsureNumericCols(t) ==
    LET missing == NumericColSet \ t.cols
    IN  Table(t.cols \cup missing,
              [i \in 1..Len(t.rows) |->
                  [c \in t.cols \cup missing |->
                      IF c \in missing THEN Num(0) ELSE t.rows[i][c]]])

\* lines 114-132: the grouped totals, the five ratio columns, inf and NaN to 0
GroupedPerformance(t, keyword_column, campaign_column) ==
    LET agg == GroupByAgg(t, campaign_column, keyword_column)
        n == Len(agg.rows)
        k1 == SetColumn(agg, "CTR", [i \in 1..n |-> RowCTR(agg.rows[i])])
        k2 == SetColumn(k1, "CPC", [i \in 1..n |-> RowCPC(k1.rows[i])])
        k3 == SetColumn(k2, "CVR", [i \in 1..n |-> RowCVR(k2.rows[i])])
        k4 == SetColumn(k3, "ACOS", [i \in 1..n |-> RowACOS(k3.rows[i])])
        k5 == SetColumn(k4, "ROAS", [i \in 1..n |-> RowROAS(k4.rows[i])])
    IN  FillNaTable(ReplaceInfTable(k5))

\* get_keyword_performance whose column test is `and` where the code has `or`:
\* with one grouping column absent the groupby raises KeyError
get_keyword_performance_And(t, keyword_column, campaign_column) ==
    IF keyword_column \notin t.cols /\ campaign_column \notin t.cols
    THEN [pc |-> "returned", val |-> EmptyTable, df |-> t]
    ELSE IF keyword_column \notin t.cols \/ campaign_column \notin t.cols
    THEN [pc |-> "raised", val |-> EmptyTable, df |-> EnsureNumericCols(t)]
    ELSE [pc |-> "returned",
          val |-> GroupedPerformance(EnsureNumericCols(t), keyword_column,
                                     campaign_column),
          df |-> EnsureNumericCols(t)]

\* get_keyword_performance: [pc, val, df], df the engine's frame afterwards
get_keyword_performance(t, keyword_column, campaign_column) ==
    IF keyword_column \notin t.cols \/ campaign_column \notin t.cols
    THEN [pc |-> "returned", val |-> EmptyTable, df |-> t]
    ELSE [pc |-> "returned",
          val |-> GroupedPerformance(EnsureNumericCols(t), keyword_column,
                                     campaign_column),
          df |-> EnsureNumericCols(t)]

\* the grouped table before it is computed
NoResult == [pc |-> "none", val |-> EmptyTable]

----------------------------------------------------------------------------
(* RecommendationEngine *)

AcosHigh == 50
CtrLow == 1
MinImpressions == 1000
AcosLow == 20
MinSales == 100
MinSpend == 50
MinOrders == 1
MinClicks == 10

\* the "{x:.2f}" rendering: x rounded to hundredths (half to even), kept as the
\* number of hundredths
Fmt2(c) ==
    IF c.t # "num" THEN Cell("fmt2", c.t, 0, 100)
    ELSE LET x == c.n * 100
             q == x \div c.d
             r == x - q * c.d
             h == IF 2 * r < c.d THEN q
                  ELSE IF 2 * r > c.d THEN q + 1
                  ELSE IF q % 2 = 0 THEN q ELSE q + 1
         IN  Cell("fmt2", "", h, 100)

\* the columns each rule tests for before it filters
TriggerCols(rule) ==
    CASE rule = 1 -> {"ACOS"}
      [] rule = 2 -> {"CTR", "Total_Impressions"}
      [] rule = 3 -> {"ACOS", "Total_Sales"}
      [] rule = 4 -> {"Total_Spend", "Total_Orders", "Total_Clicks"}

Rule1Filter(row) == GreaterThan(row["ACOS"], AcosHigh)

Rule2Filter_GE(row) ==
    /\ LessThan(row["CTR"], CtrLow)
    /\ ~LessThan(row["Total_Impressions"], MinImpressions)

Rule2Filter(row) ==
    /\ LessThan(row["CTR"], CtrLow)
    /\ GreaterThan(row["Total_Impressions"], MinImpressions)

Rule3Filter(row) ==
    /\ LessThan(row["ACOS"], AcosLow)
    /\ GreaterThan(row["Total_Sales"], MinSales)

Rule4Filter(row) ==
    /\ GreaterThan(row["Total_Spend"], MinSpend)
    /\ LessThan(row["Total_Orders"], MinOrders)
    /\ GreaterThan(row["Total_Clicks"], MinClicks)

RuleFilter(rule, row) ==
    CASE rule = 1 -> Rule1Filter(row)
      [] rule = 2 -> Rule2Filter(row)
      [] rule = 3 -> Rule3Filter(row)
      [] rule = 4 -> Rule4Filter(row)

\* the advisory string of a rule for a row, as the values it interpolates
Advisory(rule, row) ==
    [rule |-> rule,
     keyword |-> row[KeywordCol],
     campaign |-> row[CampaignCol],
     shown |-> CASE rule = 1 -> <<Fmt2(row["ACOS"])>>
                 [] rule = 2 -> <<Fmt2(row["CTR"])>>
                 [] rule = 3 -> <<Fmt2(row["ACOS"]), row["Total_Sales"]>>
                 [] rule = 4 -> <<row["Total_Spend"]>>]

\* "No specific recommendations based on current data and rules. ..."
Sentinel == [rule |-> 0, keyword |-> NaN, campaign |-> NaN, shown |-> <<>>]

\* the iterrows loop of one rule over the rows its filter keeps; the first kept
\* row raises KeyError when a name column is absent. st is [recs, raised]
RECURSIVE ScanRows(_, _, _, _)
ScanRows(rule, table, st, j) ==
    IF j > Len(table.rows) THEN st
    ELSE IF ~RuleFilter(rule, table.rows[j]) THEN ScanRows(rule, table, st, j + 1)
    ELSE IF ~({KeywordCol, CampaignCol} \subseteq table.cols)
         THEN [recs |-> st.recs, raised |-> TRUE]
    ELSE ScanRows(rule, table,
                  [recs |-> Append(st.recs, Advisory(rule, table.rows[j])),
                   raised |-> FALSE],
                  j + 1)

\* one rule block of generate_recommendations
ApplyRule(rule, table, st) ==
    IF st.raised THEN st
    ELSE IF ~(TriggerCols(rule) \subseteq table.cols) THEN st
    ELSE ScanRows(rule, table, st, 1)

\* Finish without the sentinel of lines 76-77
Finish_NoSentinel(st, previous) ==
    IF st.raised
    THEN [pc |-> "raised", recommendations |-> st.recs, returned |-> previous]
    ELSE [pc |-> "returned", recommendations |-> st.recs, returned |-> st.recs]

\* lines 76-79 and the outcome of the call: [pc, recommendations, returned]
Finish(st, previous) ==
    IF st.raised
    THEN [pc |-> "raised", recommendations |-> st.recs, returned |-> previous]
    ELSE LET final == IF Len(st.recs) = 0 THEN <<Sentinel>> ELSE st.recs
         IN  [pc |-> "returned", recommendations |-> final, returned |-> final]

\* generate_recommendations with the loops nested the other way: every rule is
\* applied to a row before the next row is looked at
RECURSIVE RowMajor(_, _, _)
RowMajor(table, st, j) ==
    IF j > Len(table.rows) THEN st
    ELSE LET one == Table(table.cols, <<table.rows[j]>>)
         IN  RowMajor(table,
                      ApplyRule(4, one, ApplyRule(3, one,
                          ApplyRule(2, one, ApplyRule(1, one, st)))),
                      j + 1)

generate_recommendations_RowMajor(self_recs, table, previous) ==
    Finish(RowMajor(table, [recs |-> <<>>, raised |-> FALSE], 1), previous)

\* generate_recommendations without the reset of line 16
generate_recommendations_NoReset(self_recs, table, previous) ==
    LET s0 == [recs |-> self_recs, raised |-> FALSE]
        s1 == ApplyRule(1, table, s0)
        s2 == ApplyRule(2, table, s1)
        s3 == ApplyRule(3, table, s2)
        s4 == ApplyRule(4, table, s3)
    IN  Finish(s4, previous)

\* generate_recommendations(self): self_recs is self.recommendations on entry,
\* previous the value the caller holds from the call before
generate_recommendations(self_recs, table, previous) ==
    LET s0 == [recs |-> <<>>, raised |-> FALSE]
        s1 == ApplyRule(1, table, s0)
        s2 == ApplyRule(2, table, s1)
        s3 == ApplyRule(3, table, s2)
        s4 == ApplyRule(4, table, s3)
    IN  Finish(s4, previous)

\* get_formatted_recommendations: [pc, val, recommendations]; val is the rendered
\* block as its lines, [index, rec], index 0 for the unnumbered sentinel line
get_formatted_recommendations(self_recs, table) ==
    LET g == IF Len(self_recs) = 0
             THEN generate_recommendations(self_recs, table, <<>>)
             ELSE [pc |-> "returned", recommendations |-> self_recs,
                   returned |-> self_recs]
        recs == g.recommendations
    IN  IF g.pc = "raised"
        THEN [pc |-> "raised", val |-> <<>>, recommendations |-> recs]
        ELSE IF Len(recs) = 0 \/ recs[1].rule = 0
        THEN [pc |-> "returned", val |-> <<[index |-> 0, rec |-> Sentinel]>>,
              recommendations |-> recs]
        ELSE [pc |-> "returned",
              val |-> [i \in 1..Len(recs) |-> [index |-> i, rec |-> recs[i]]],
              recommendations |-> recs]

NoFormatted == [pc |-> "none", val |-> <<>>]

----------------------------------------------------------------------------
(* The datasets and tables the model runs on *)

InRow(campaign, keyword, impressions, clicks, spend, sales, orders, date) ==
    [c \in InputCols |->
        CASE c = CampaignCol -> campaign
          [] c = KeywordCol -> keyword
          [] c = "Impressions" -> impressions
          [] c = "Clicks" -> clicks
          [] c = "Spend" -> spend
          [] c = "Sales" -> sales
          [] c = "Orders" -> orders
          [] c = DateCol -> date]

GoodDate == Text("2024-01-05")
BadDate == Text("yesterday")

\* the row of the worked example: rule 1 only
ExampleRow ==
    InRow(Text("A"), Text("k1"), Num(1000), Num(5), Num(100), Num(50), Num(0), GoodDate)

RowChoices ==
    { ExampleRow,
      \* every value on its threshold
      InRow(Text("A"), Text("k1"), Num(1000), Num(10), Num(50), Num(100), Num(1), GoodDate),
      \* a high performer (rule 3)
      InRow(Text("A"), Text("k2"), Num(2000), Num(40), Num(20), Num(200), Num(3), GoodDate),
      \* rules 1, 2 and 4 at once; a date that does not parse
      InRow(Text("B"), Text("k1"), Num(2000), Num(11), Num(51), Num(1), Num(0), BadDate),
      \* dirty cells and a negative number
      InRow(Text("A"), Text("k2"), Text("n/a"), NaN, Text("60"), Num(-10), Text("x"), NaN),
      \* no campaign name
      InRow(NaN, Text("k1"), Num(1001), Num(10), Num(7), Num(0), Num(0), GoodDate),
      \* all zero
      InRow(Text("B"), Text("k2"), Num(0), Num(0), Num(0), Num(0), Num(0), GoodDate),
      \* ACOS = 20 with high sales, CTR = 1 with high impressions
      InRow(Text("B"), Text("k1"), Num(2000), Num(20), Num(40), Num(200), Num(1), GoodDate),
      \* spend on its threshold, the rest of rule 4 satisfied
      InRow(Text("A"), Text("k1"), Num(1001), Num(11), Num(50), Num(100), Num(0), GoodDate) }

\* the columns a dataset has: all of them, or all but one
ColumnChoices == {InputCols} \cup {InputCols \ {c} : c \in InputCols}

Restrict(row, cols) == [c \in cols |-> row[c]]

Datasets ==
    {DataFrame(cols, [i \in 1..n |-> Restrict(rs[i], cols)]) :
        <<cols, n, rs>> \in
            {<<cols, n, rs>> \in ColumnChoices \X (0..MaxRows) \X [1..MaxRows -> RowChoices] :
                \A i \in (n + 1)..MaxRows : rs[i] = CHOOSE r \in RowChoices : TRUE}}

Inputs == {NonTabular} \cup Datasets

\* the columns generate_recommendations reads
RuleReadCols ==
    {"ACOS", "CTR", "Total_Impressions", "Total_Sales", "Total_Spend", "Total_Orders",
     "Total_Clicks", CampaignCol, KeywordCol}

\* what a caller may leave out of the table it hands to RecommendationEngine
DropChoices == {{}} \cup {{c} : c \in RuleReadCols}

DropColumns(t, drop) ==
    Table(t.cols \ drop,
          [i \in 1..Len(t.rows) |-> [c \in t.cols \ drop |-> t.rows[i][c]]])

----------------------------------------------------------------------------
(* upload_ppc_reports: the request, the files and the upload folder *)

\* a file name as its stem, whether it has a dot, and what follows the last dot
FileName(stem, dot, ext) == [stem |-> stem, dot |-> dot, ext |-> ext]
NoName == FileName("", FALSE, "")

\* str.lower() on the extensions of the model
Lower(ext) == IF ext = "CSV" THEN "csv" ELSE ext

ALLOWED_EXTENSIONS == {"csv"}

\* allowed_file without .lower()
allowed_file_CaseSensitive(filename) ==
    filename.dot /\ filename.ext \in ALLOWED_EXTENSIONS

allowed_file(filename) == filename.dot /\ Lower(filename.ext) \in ALLOWED_EXTENSIONS

\* werkzeug's secure_filename on the names of the model: a blank becomes "_"
secure_filename(filename) ==
    FileName(IF filename.stem = "my report" THEN "my_report" ELSE filename.stem,
             filename.dot, filename.ext)

\* bool(file): a FileStorage is falsy when it has no filename
Truthy(file) == file.filename # NoName

\* an uploaded file. save: what file.save does ("ok"; "fails": raises, nothing
\* written; "partial": raises, a file is left behind). outcomes: what
\* pd.read_csv does under each encoding tried, in order ("read": returns table;
\* "decode_error": UnicodeDecodeError; "empty_data": EmptyDataError;
\* "parse_error": any other exception). removeOk: os.remove succeeds
Upload(filename, save, outcomes, table, removeOk) ==
    [filename |-> filename, save |-> save, outcomes |-> outcomes, table |-> table,
     removeOk |-> removeOk]

ReportTable == Table(InputCols, <<ExampleRow>>)

\* two rows with dirty cells, a date that does not parse, no Orders column
DirtyTable ==
    LET cols == InputCols \ {"Orders"}
    IN  Table(cols,
              <<Restrict(InRow(Text("A"), Text("k2"), Text("n/a"), NaN, Text("60"),
                               Num(-10), NaN, NaN), cols),
                Restrict(InRow(Text("B"), Text("k1"), Num(2000), Num(11), Num(51),
                               Num(1), NaN, BadDate), cols)>>)

\* a header line and no data line
HeaderOnlyTable == Table({CampaignCol, KeywordCol, "Spend"}, <<>>)

\* a data line of empty cells
BlankTable == Table({CampaignCol, "Spend"}, <<[c \in {CampaignCol, "Spend"} |-> NaN]>>)

\* file contents: [outcomes, table]
Content(outcomes, table) == [outcomes |-> outcomes, table |-> table]
ValidContents ==
    { Content(<<"read">>, ReportTable),
      Content(<<"decode_error", "read">>, DirtyTable) }
InvalidContents ==
    { Content(<<"read", "read", "read", "read">>, HeaderOnlyTable),
      Content(<<"read", "read", "read", "read">>, BlankTable),
      Content(<<"empty_data">>, EmptyTable),
      Content(<<"decode_error", "parse_error">>, EmptyTable),
      Content(<<"decode_error", "decode_error", "decode_error", "decode_error">>,
              EmptyTable) }

CsvNames == {FileName("a", TRUE, "csv"), FileName("my report", TRUE, "CSV")}
OtherNames == {FileName("report", TRUE, "txt"), FileName("csv", FALSE, ""), NoName}

UploadChoices ==
    {Upload(n, "ok", c.outcomes, c.table, TRUE) :
        n \in CsvNames, c \in ValidContents \cup InvalidContents}
    \cup {Upload(n, "ok", c.outcomes, c.table, TRUE) :
        n \in OtherNames, c \in {Content(<<"read">>, ReportTable)}}
    \cup {Upload(FileName("a", TRUE, "csv"), sv, c.outcomes, c.table, rm) :
        sv \in {"fails", "partial"}, rm \in {TRUE},
        c \in {Content(<<"read">>, ReportTable)}}
    \cup {Upload(FileName("a", TRUE, "csv"), sv, c.outcomes, c.table, FALSE) :
        sv \in {"ok", "partial"},
        c \in {Content(<<"read">>, ReportTable),
               Content(<<"decode_error", "parse_error">>, EmptyTable)}}

Requests ==
    {[i \in 1..n |-> fs[i]] :
        <<n, fs>> \in
            {<<n, fs>> \in (0..MaxFiles) \X [1..MaxFiles -> UploadChoices] :
                \A i \in (n + 1)..MaxFiles : fs[i] = CHOOSE u \in UploadChoices : TRUE}}

\* an entry of `errors`: which message, about which file name
Error(kind, filename) == [kind |-> kind, filename |-> filename]

\* temp_df.dropna(axis=1, how="all", inplace=True)
DropEmptyColumns(t) ==
    LET keep == {c \in t.cols : \E i \in 1..Len(t.rows) : t.rows[i][c].t # "nan"}
    IN  Table(keep, [i \in 1..Len(t.rows) |-> [c \in keep |-> t.rows[i][c]]])

\* DataFrame.empty
IsEmpty(t) == t.cols = {} \/ Len(t.rows) = 0

NoParsed == [some |-> FALSE, val |-> EmptyTable]

\* the loop `for encoding in possible_encodings`: [df, errors]
RECURSIVE ParseLoop(_, _, _, _)
ParseLoop(file, filename, errs, i) ==
    IF i > Len(file.outcomes) THEN [df |-> NoParsed, errors |-> errs]
    ELSE CASE file.outcomes[i] = "read" ->
                LET temp_df == DropEmptyColumns(file.table)
                IN  IF ~IsEmpty(temp_df)
                    THEN [df |-> [some |-> TRUE, val |-> temp_df], errors |-> errs]
                    ELSE ParseLoop(file, filename, errs, i + 1)
           [] file.outcomes[i] = "decode_error" ->
                ParseLoop(file, filename, errs, i + 1)
           [] file.outcomes[i] = "empty_data" ->
                [df |-> NoParsed, errors |-> Append(errs, Error("empty", filename))]
           [] file.outcomes[i] = "parse_error" ->
                [df |-> NoParsed, errors |-> Append(errs, Error("parse", filename))]

\* df["Date"] = pd.to_datetime(df["Date"]) inside its try/except
ConvertDatesIfPossible(t) ==
    IF DateCol \in t.cols /\ DateColumnParses(t) THEN ConvertDates(t) ELSE t

\* lines 119-132: [all_data_dfs, processed_filenames, errors]
AfterParse(filename, r, dfs, names) ==
    IF r.df.some /\ ~IsEmpty(r.df.val)
    THEN [all_data_dfs |-> Append(dfs, ConvertDatesIfPossible(r.df.val)),
          processed_filenames |-> Append(names, filename),
          errors |-> r.errors]
    ELSE IF /\ ~r.df.some
            /\ ~\E k \in 1..Len(r.errors) :
                   r.errors[k] \in {Error("parse", filename), Error("empty", filename)}
    THEN [all_data_dfs |-> dfs, processed_filenames |-> names,
          errors |-> Append(r.errors, Error("unparsed", filename))]
    ELSE [all_data_dfs |-> dfs, processed_filenames |-> names, errors |-> r.errors]

\* pd.concat(all_data_dfs, ignore_index=True): the union of the columns, NaN
\* where a frame lacks one
RECURSIVE ConcatRows(_, _, _)
ConcatRows(dfs, cols, k) ==
    IF k > Len(dfs) THEN <<>>
    ELSE [i \in 1..Len(dfs[k].rows) |->
             [c \in cols |-> IF c \in dfs[k].cols THEN dfs[k].rows[i][c] ELSE NaN]]
         \o ConcatRows(dfs, cols, k + 1)

Concat(dfs) ==
    LET cols == UNION {dfs[k].cols : k \in 1..Len(dfs)}
    IN  Table(cols, ConcatRows(dfs, cols, 1))

\* the response: status 0 while there is none; "message" is the constant part of
\* the text, rows and files the numbers and names it renders
NoResponse ==
    [status |-> 0, error |-> "", message |-> "", rows |-> 0, files |-> <<>>,
     kpis |-> [present |-> FALSE, val |-> NoSummary], recommendations |-> <<>>,
     errors |-> [null |-> TRUE, list |-> <<>>]]

\* jsonify({"error": ..., "details": ...}), status
ErrorResponse(status, error, details) ==
    [status |-> status, error |-> error, message |-> "", rows |-> 0, files |-> <<>>,
     kpis |-> [present |-> FALSE, val |-> NoSummary], recommendations |-> <<>>,
     errors |-> [null |-> FALSE, list |-> details]]

\* lines 175-187: "message" as the two numbers it renders and the file names
OkResponse(combined, names, summary, recs, errs) ==
    [status |-> 200, error |-> "", message |-> "rows of data processed",
     rows |-> Len(combined.rows), files |-> names,
     kpis |-> [present |-> TRUE, val |-> summary], recommendations |-> recs,
     errors |-> [null |-> Len(errs) = 0, list |-> errs]]

\* the handler is not running
UploadIdle ==
    /\ request = <<>>
    /\ uploadPc = "idle"
    /\ fileIdx = 0
    /\ parsed = NoParsed
    /\ all_data_dfs = <<>>
    /\ processed_filenames = <<>>
    /\ errors = <<>>
    /\ upload_folder = {}
    /\ combined_df = EmptyTable
    /\ response = NoResponse

\* the finally block on the success path only
RemoveTemp_OnSuccess(folder, filename, file) ==
    IF file.save # "ok" THEN folder
    ELSE IF filename \in folder /\ file.removeOk THEN folder \ {filename} ELSE folder

\* finally: if os.path.exists(filepath): try: os.remove(filepath) except: log
RemoveTemp(folder, filename, file) ==
    IF filename \in folder
    THEN IF file.removeOk THEN folder \ {filename} ELSE folder
    ELSE folder

----------------------------------------------------------------------------
(* The state machine *)

Init ==
    /\ input \in Inputs
    /\ enginePc = "none"
    /\ df = NoDF
    /\ kpi_summary = [pc |-> "none", val |-> NoSummary]
    /\ keyword_performance_df = NoResult
    /\ recPc = "none"
    /\ kpi_data = NoSummary
    /\ keyword_data = EmptyTable
    /\ recommendations = <<>>
    /\ returned = <<>>
    /\ calls = 0
    /\ formatted = NoFormatted
    /\ UploadIdle

\* analysis_engine = MetricsAnalysisEngine(combined_df.copy())
NewMetricsAnalysisEngine ==
    /\ enginePc = "none"
    /\ LET e == EngineInit(input)
       IN  /\ enginePc' = e.pc
           /\ df' = e.df
           /\ input' = e.dataframe
    /\ UNCHANGED <<kpi_summary, keyword_performance_df, recPc, kpi_data,
                   keyword_data, recommendations, returned, calls, formatted,
                   uploadVars>>

\* kpi_summary = analysis_engine.get_campaign_performance_summary()
GetCampaignPerformanceSummary ==
    /\ enginePc = "ready"
    /\ recPc = "none"
    /\ kpi_summary' = [pc |-> "returned", val |-> get_campaign_performance_summary(df)]
    /\ UNCHANGED <<input, enginePc, df, keyword_performance_df, recPc, kpi_data,
                   keyword_data, recommendations, returned, calls, formatted,
                   uploadVars>>

\* keyword_performance_df = analysis_engine.get_keyword_performance()
GetKeywordPerformance ==
    /\ enginePc = "ready"
    /\ recPc = "none"
    /\ LET k == get_keyword_performance(df, KeywordCol, CampaignCol)
       IN  /\ keyword_performance_df' = [pc |-> k.pc, val |-> k.val]
           /\ df' = k.df
    /\ UNCHANGED <<input, enginePc, kpi_summary, recPc, kpi_data, keyword_data,
                   recommendations, returned, calls, formatted,
                   uploadVars>>

\* RecommendationEngine(kpi_data, keyword_data): the grouped table of the engine,
\* or that table with a column left out
NewRecommendationEngine(drop) ==
    /\ recPc = "none"
    /\ kpi_summary.pc = "returned"
    /\ keyword_performance_df.pc = "returned"
    /\ recPc' = "ready"
    /\ kpi_data' = kpi_summary.val
    /\ keyword_data' = DropColumns(keyword_performance_df.val, drop)
    /\ recommendations' = <<>>
    /\ UNCHANGED <<input, enginePc, df, kpi_summary, keyword_performance_df, returned,
                   calls, formatted,
                   uploadVars>>

\* recommendations_list = recommendation_engine.generate_recommendations()
GenerateRecommendations ==
    /\ recPc # "none"
    /\ calls < MaxCalls
    /\ LET g == generate_recommendations(recommendations, keyword_data, returned)
       IN  /\ recPc' = g.pc
           /\ recommendations' = g.recommendations
           /\ returned' = g.returned
    /\ calls' = calls + 1
    /\ UNCHANGED <<input, enginePc, df, kpi_summary, keyword_performance_df, kpi_data,
                   keyword_data, formatted,
                   uploadVars>>

\* recommendation_engine.get_formatted_recommendations()
GetFormattedRecommendations ==
    /\ recPc # "none"
    /\ LET f == get_formatted_recommendations(recommendations, keyword_data)
       IN  /\ formatted' = [pc |-> f.pc, val |-> f.val]
           /\ recommendations' = f.recommendations
    /\ UNCHANGED <<input, enginePc, df, kpi_summary, keyword_performance_df, recPc,
                   kpi_data, keyword_data, returned, calls,
                   uploadVars>>

Next ==
    \/ NewMetricsAnalysisEngine
    \/ GetCampaignPerformanceSummary
    \/ GetKeywordPerformance
    \/ \E drop \in DropChoices : NewRecommendationEngine(drop)
    \/ GenerateRecommendations
    \/ GetFormattedRecommendations

Spec == Init /\ [][Next]_vars

----------------------------------------------------------------------------
(* upload_ppc_reports as a sequence of steps *)

InitUpload ==
    /\ input = DataFrame({}, <<>>)
    /\ enginePc = "none"
    /\ df = NoDF
    /\ kpi_summary = [pc |-> "none", val |-> NoSummary]
    /\ keyword_performance_df = NoResult
    /\ recPc = "none"
    /\ kpi_data = NoSummary
    /\ keyword_data = EmptyTable
    /\ recommendations = <<>>
    /\ returned = <<>>
    /\ calls = 0
    /\ formatted = NoFormatted
    /\ request \in Requests
    /\ uploadPc = "start"
    /\ fileIdx = 0
    /\ parsed = NoParsed
    /\ all_data_dfs = <<>>
    /\ processed_filenames = <<>>
    /\ errors = <<>>
    /\ upload_folder = {}
    /\ combined_df = EmptyTable
    /\ response = NoResponse

\* lines 57-69: no "files[]" part, or no file with a name: 400
CheckRequest ==
    /\ uploadPc = "start"
    /\ IF Len(request) = 0
       THEN /\ response' = ErrorResponse(400, "No file part", <<>>)
            /\ uploadPc' = "done"
            /\ UNCHANGED fileIdx
       ELSE IF \A i \in 1..Len(request) : request[i].filename = NoName
       THEN /\ response' = ErrorResponse(400, "No selected files", <<>>)
            /\ uploadPc' = "done"
            /\ UNCHANGED fileIdx
       ELSE /\ uploadPc' = "loop"
            /\ fileIdx' = 1
            /\ UNCHANGED response
    /\ UNCHANGED <<engineVars, request, parsed, all_data_dfs, processed_filenames,
                   errors, upload_folder, combined_df>>

\* lines 71-74 and 143-144: the head of the loop body
BeginFile ==
    /\ uploadPc = "loop"
    /\ fileIdx <= Len(request)
    /\ LET file == request[fileIdx]
       IN  IF Truthy(file) /\ allowed_file(file.filename)
           THEN /\ uploadPc' = "save"
                /\ UNCHANGED <<fileIdx, errors>>
           ELSE IF Truthy(file)
           THEN /\ errors' = Append(errors, Error("type", file.filename))
                /\ fileIdx' = fileIdx + 1
                /\ UNCHANGED uploadPc
           ELSE /\ fileIdx' = fileIdx + 1
                /\ UNCHANGED <<uploadPc, errors>>
    /\ parsed' = NoParsed
    /\ UNCHANGED <<engineVars, request, all_data_dfs, processed_filenames,
                   upload_folder, combined_df, response>>

\* line 76: file.save(filepath); lines 133-135 when it raises
SaveFile ==
    /\ uploadPc = "save"
    /\ LET file == request[fileIdx]
           filename == secure_filename(file.filename)
       IN  /\ upload_folder' = IF file.save \in {"ok", "partial"}
                               THEN upload_folder \cup {filename}
                               ELSE upload_folder
           /\ IF file.save = "ok"
              THEN /\ uploadPc' = "parse"
                   /\ UNCHANGED errors
              ELSE /\ uploadPc' = "cleanup"
                   /\ errors' = Append(errors, Error("processing", filename))
    /\ UNCHANGED <<engineVars, request, fileIdx, parsed, all_data_dfs,
                   processed_filenames, combined_df, response>>

\* lines 80-132: the encodings loop and what follows it
ParseFile ==
    /\ uploadPc = "parse"
    /\ LET file == request[fileIdx]
           filename == secure_filename(file.filename)
           r == ParseLoop(file, filename, errors, 1)
           a == AfterParse(filename, r, all_data_dfs, processed_filenames)
       IN  /\ parsed' = r.df
           /\ all_data_dfs' = a.all_data_dfs
           /\ processed_filenames' = a.processed_filenames
           /\ errors' = a.errors
    /\ uploadPc' = "cleanup"
    /\ UNCHANGED <<engineVars, request, fileIdx, upload_folder, combined_df, response>>

\* lines 136-142: finally
Cleanup ==
    /\ uploadPc = "cleanup"
    /\ LET file == request[fileIdx]
       IN  upload_folder' = RemoveTemp(upload_folder, secure_filename(file.filename), file)
    /\ uploadPc' = "loop"
    /\ fileIdx' = fileIdx + 1
    /\ UNCHANGED <<engineVars, request, parsed, all_data_dfs, processed_filenames,
                   errors, combined_df, response>>

\* lines 146-152: after the loop
Combine ==
    /\ uploadPc = "loop"
    /\ fileIdx > Len(request)
    /\ IF Len(all_data_dfs) = 0
       THEN /\ response' = ErrorResponse(400,
                               "No data could be parsed from the uploaded files.", errors)
            /\ uploadPc' = "done"
            /\ UNCHANGED combined_df
       ELSE /\ combined_df' = Concat(all_data_dfs)
            /\ uploadPc' = "analyze"
            /\ UNCHANGED response
    /\ UNCHANGED <<engineVars, request, fileIdx, parsed, all_data_dfs,
                   processed_filenames, errors, upload_folder>>

\* lines 155-163: the analysis try block
Analyze ==
    /\ uploadPc = "analyze"
    /\ LET e == EngineInit(DataFrame(combined_df.cols, combined_df.rows))
           k == get_keyword_performance(e.df, KeywordCol, CampaignCol)
       IN  /\ input' = e.dataframe
           /\ enginePc' = e.pc
           /\ IF e.pc = "raised" \/ k.pc = "raised"
              THEN /\ errors' = Append(errors, Error("analysis", NoName))
                   /\ response' = ErrorResponse(500, "Error during data analysis.",
                                                errors')
                   /\ uploadPc' = "done"
                   /\ df' = e.df
                   /\ UNCHANGED <<kpi_summary, keyword_performance_df>>
              ELSE /\ kpi_summary' =
                          [pc |-> "returned", val |-> get_campaign_performance_summary(e.df)]
                   /\ keyword_performance_df' = [pc |-> k.pc, val |-> k.val]
                   /\ df' = k.df
                   /\ uploadPc' = "recommend"
                   /\ UNCHANGED <<errors, response>>
    /\ UNCHANGED <<recPc, kpi_data, keyword_data, recommendations, returned, calls,
                   formatted, request, fileIdx, parsed, all_data_dfs,
                   processed_filenames, upload_folder, combined_df>>

\* lines 166-187: the recommendation try block and the response
Recommend ==
    /\ uploadPc = "recommend"
    /\ LET g == generate_recommendations(<<>>, keyword_performance_df.val, <<>>)
       IN  /\ kpi_data' = kpi_summary.val
           /\ keyword_data' = keyword_performance_df.val
           /\ recPc' = g.pc
           /\ recommendations' = g.recommendations
           /\ returned' = g.returned
           /\ calls' = calls + 1
           /\ IF g.pc = "raised"
              THEN /\ errors' = Append(errors, Error("recommendation", NoName))
                   /\ response' = ErrorResponse(500,
                                      "Error during recommendation generation.", errors')
              ELSE /\ response' = OkResponse(combined_df, processed_filenames,
                                             kpi_summary.val, g.returned, errors)
                   /\ UNCHANGED errors
    /\ uploadPc' = "done"
    /\ UNCHANGED <<input, enginePc, df, kpi_summary, keyword_performance_df, formatted,
                   request, fileIdx, parsed, all_data_dfs, processed_filenames,
                   upload_folder, combined_df>>

NextUpload ==
    \/ CheckRequest
    \/ BeginFile
    \/ SaveFile
    \/ ParseFile
    \/ Cleanup
    \/ Combine
    \/ Analyze
    \/ Recommend

SpecUpload == InitUpload /\ [][NextUpload]_vars

----------------------------------------------------------------------------
(* What the claims speak of, stated on the caller's dataset *)

RECURSIVE SumSeq(_)
SumSeq(q) == IF Len(q) = 0 THEN 0 ELSE Head(q) + SumSeq(Tail(q))

\* the number a cell counts as: a missing or non-numeric cell counts as 0
CoercedValue(c) ==
    IF c.t = "num" THEN c.n
    ELSE IF c.t = "text" /\ c.s \in DOMAIN NumericText THEN NumericText[c.s]
    ELSE 0

\* the value of a column in an input row, 0 when the dataset has no such column
InputValue(i, col) ==
    IF col \in input.cols THEN CoercedValue(input.rows[i][col]) ELSE 0

ExpectedTotal(col) == SumSeq([i \in 1..Len(input.rows) |-> InputValue(i, col)])

InputPair(i) == <<input.rows[i][CampaignCol], input.rows[i][KeywordCol]>>

ExpectedGroupTotal(col, pair) ==
    SumSeq([i \in 1..Len(input.rows) |->
               IF InputPair(i) = pair THEN InputValue(i, col) ELSE 0])

\* c is the number k * num / den, or exactly 0 when den is 0
IsRatioOf(c, num, den, k) ==
    /\ c.t = "num"
    /\ IF den = 0 THEN c = Num(0) ELSE c.n * den = k * num * c.d

\* the five ratios of a holder of totals: get(total name) and ratio(ratio index)
RatiosFollowFormula(imp, clk, spend, sales, orders, ctr, cpc, cvr, acos, roas) ==
    /\ IsRatioOf(ctr, clk, imp, 100)
    /\ IsRatioOf(cpc, spend, clk, 1)
    /\ IsRatioOf(cvr, orders, clk, 100)
    /\ IsRatioOf(acos, spend, sales, 100)
    /\ IsRatioOf(roas, sales, spend, 1)

\* a grouped row satisfies a rule of the table of section 4.2
Satisfies(rule, t, row) ==
    /\ TriggerCols(rule) \subseteq t.cols
    /\ CASE rule = 1 -> row["ACOS"].n > 50 * row["ACOS"].d
         [] rule = 2 -> /\ row["CTR"].n < row["CTR"].d
                        /\ row["Total_Impressions"].n > 1000
         [] rule = 3 -> /\ row["ACOS"].n < 20 * row["ACOS"].d
                        /\ row["Total_Sales"].n > 100
         [] rule = 4 -> /\ row["Total_Spend"].n > 50
                        /\ row["Total_Orders"].n < 1
                        /\ row["Total_Clicks"].n > 10

Rules == 1..4

SomeRowSatisfies(t) ==
    \E rule \in Rules : \E j \in 1..Len(t.rows) : Satisfies(rule, t, t.rows[j])

\* the rows of t a rule matches, in table-row order
RECURSIVE Matching(_, _, _)
Matching(rule, t, j) ==
    IF j > Len(t.rows) THEN <<>>
    ELSE (IF Satisfies(rule, t, t.rows[j]) THEN <<t.rows[j]>> ELSE <<>>)
           \o Matching(rule, t, j + 1)

ExpectedFor(rule, t) ==
    LET m == Matching(rule, t, 1)
    IN  [k \in 1..Len(m) |-> Advisory(rule, m[k])]

ExpectedAdvisories(t) ==
    ExpectedFor(1, t) \o ExpectedFor(2, t) \o ExpectedFor(3, t) \o ExpectedFor(4, t)

\* the advisories of a list that a rule produced for a row
AdvisoriesOf(list, rule, t, row) ==
    {i \in 1..Len(list) :
        /\ list[i].rule = rule
        /\ KeywordCol \in t.cols => list[i].keyword = row[KeywordCol]
        /\ CampaignCol \in t.cols => list[i].campaign = row[CampaignCol]}

----------------------------------------------------------------------------
(* C1 *)

\* C1: each of the five totals of the summary is the sum over all input rows of
\* that column after coercion (a missing or non-numeric cell counts as 0), and
\* is 0 for a column the input does not have.
C1_TotalsAreColumnSums ==
    kpi_summary.pc = "returned" =>
        \A i \in 1..5 :
            kpi_summary.val[SummaryTotals[i]] = Num(ExpectedTotal(NumericCols[i]))

\* a summary of a dataset without an Orders column that holds a non-numeric
\* cell, a missing cell and a number written as text
C1_Witness ==
    /\ kpi_summary.pc = "returned"
    /\ "Orders" \notin input.cols
    /\ \E i \in 1..Len(input.rows) :
          /\ input.rows[i]["Impressions"] = Text("n/a")
          /\ input.rows[i]["Clicks"] = NaN
          /\ input.rows[i]["Spend"] = Text("60")
    /\ kpi_summary.val["Total Spend"] = Num(160)
    /\ kpi_summary.val["Total Orders"] = Num(0)

(* C2 *)

\* C2: in the overall summary and in every grouped row each of the five ratios
\* is its formula applied to the totals when the denominator total is not 0 and
\* exactly 0 when it is 0, and no ratio is NaN or infinite.
C2_RatiosFollowFormula ==
    /\ kpi_summary.pc = "returned" =>
          LET v == kpi_summary.val
          IN  RatiosFollowFormula(
                  v["Total Impressions"].n, v["Total Clicks"].n, v["Total Spend"].n,
                  v["Total Sales"].n, v["Total Orders"].n,
                  v["Click-Through Rate (CTR)"], v["Cost Per Click (CPC)"],
                  v["Conversion Rate (CVR)"], v["Advertising Cost of Sales (ACOS)"],
                  v["Return on Ad Spend (ROAS)"])
    /\ keyword_performance_df.pc = "returned" =>
          \A j \in 1..Len(keyword_performance_df.val.rows) :
              LET r == keyword_performance_df.val.rows[j]
              IN  RatiosFollowFormula(
                      r["Total_Impressions"].n, r["Total_Clicks"].n, r["Total_Spend"].n,
                      r["Total_Sales"].n, r["Total_Orders"].n,
                      r["CTR"], r["CPC"], r["CVR"], r["ACOS"], r["ROAS"])

(* C3 *)

\* C3: for a dataset with both grouping columns the grouped table has exactly
\* one row per distinct (Campaign Name, Keyword or Product Targeting) pair of
\* the input rows, each group total is the column sum over the rows of its
\* pair, and the group totals of each numeric field add up to the overall total.
C3_GroupsPartitionInput ==
    (keyword_performance_df.pc = "returned" /\ {CampaignCol, KeywordCol} \subseteq input.cols)
    => LET g == keyword_performance_df.val
           pairs == {InputPair(i) : i \in 1..Len(input.rows)}
       IN  /\ Len(g.rows) = Cardinality(pairs)
           /\ {<<g.rows[j][CampaignCol], g.rows[j][KeywordCol]>> : j \in 1..Len(g.rows)}
                 = pairs
           /\ \A j \in 1..Len(g.rows) : \A i \in 1..5 :
                 g.rows[j][TotalCols[i]] =
                     Num(ExpectedGroupTotal(NumericCols[i],
                             <<g.rows[j][CampaignCol], g.rows[j][KeywordCol]>>))
           /\ \A i \in 1..5 :
                 SumSeq([j \in 1..Len(g.rows) |-> g.rows[j][TotalCols[i]].n])
                     = ExpectedTotal(NumericCols[i])

(* C4 *)

\* C4: when some grouped row satisfies a rule, the returned list is the
\* concatenation, for rules 1, 2, 3, 4 in that order, of one advisory per row
\* satisfying the rule, in table-row order; a row satisfying k rules contributes
\* k advisories and the length is the number of (rule, row) matches.
C4_AdvisoriesInRuleOrder ==
    (recPc = "returned" /\ SomeRowSatisfies(keyword_data))
    => /\ returned = ExpectedAdvisories(keyword_data)
       /\ Len(returned) =
             Cardinality({<<rule, j>> \in Rules \X (1..Len(keyword_data.rows)) :
                             Satisfies(rule, keyword_data, keyword_data.rows[j])})
       /\ \A j \in 1..Len(keyword_data.rows) :
             Cardinality(UNION {AdvisoriesOf(returned, rule, keyword_data,
                                             keyword_data.rows[j]) : rule \in Rules})
               = Cardinality({rule \in Rules :
                                 Satisfies(rule, keyword_data, keyword_data.rows[j])})

\* two grouped rows, one of them satisfying three rules, the other one rule
C4_Witness ==
    /\ recPc = "returned"
    /\ Len(keyword_data.rows) = 2
    /\ Len(returned) = 4
    /\ \E j \in 1..2 :
          Cardinality({rule \in Rules :
                          Satisfies(rule, keyword_data, keyword_data.rows[j])}) = 3
    /\ returned[1].rule = 1 /\ returned[2].rule = 1

(* C5 *)

\* C5: the returned list is never empty; it is exactly the sentinel when no
\* grouped row satisfies a rule (an empty table included), and the sentinel
\* never stands next to a rule advisory.
C5_NeverEmpty ==
    recPc = "returned" =>
        /\ Len(returned) >= 1
        /\ ~SomeRowSatisfies(keyword_data) => returned = <<Sentinel>>
        /\ (\E i \in 1..Len(returned) : returned[i] = Sentinel)
              => returned = <<Sentinel>>

\* the sentinel returned for a table that has rows, none satisfying a rule
C5_Witness ==
    /\ recPc = "returned"
    /\ Len(keyword_data.rows) >= 1
    /\ keyword_data.cols = GroupedCols
    /\ returned = <<Sentinel>>

(* C6 *)

\* the columns a rule reads: the ones it filters on and the two names
ReadCols(rule) == TriggerCols(rule) \cup {CampaignCol, KeywordCol}

\* C6: a rule one of whose columns (filter columns or name columns) is missing
\* from the table is skipped: the call does not raise and the list holds no
\* advisory of that rule.
C6_MissingColumnSkipsRule ==
    recPc \in {"returned", "raised"} =>
        \A rule \in Rules :
            ~(ReadCols(rule) \subseteq keyword_data.cols) =>
                /\ recPc = "returned"
                /\ \A i \in 1..Len(recommendations) : recommendations[i].rule # rule

(* C7 *)

\* C7: without the Campaign Name or the Keyword or Product Targeting column
\* get_keyword_performance returns the empty table and does not raise, and
\* generate_recommendations on that table returns exactly the sentinel.
C7_MissingGroupingColumn ==
    (input.tabular /\ ~({CampaignCol, KeywordCol} \subseteq input.cols))
    => /\ keyword_performance_df.pc # "none" =>
             keyword_performance_df = [pc |-> "returned", val |-> EmptyTable]
       /\ recPc \in {"returned", "raised"} =>
             recPc = "returned" /\ returned = <<Sentinel>>

\* the sentinel returned for a dataset with rows and no Campaign Name column
C7_Witness ==
    /\ input.tabular
    /\ CampaignCol \notin input.cols
    /\ Len(input.rows) >= 1
    /\ keyword_performance_df = [pc |-> "returned", val |-> EmptyTable]
    /\ recPc = "returned"
    /\ returned = <<Sentinel>>

(* C8 *)

\* C8: a non-tabular input makes the constructor raise before the frame is
\* assigned or anything is computed; for a tabular input the constructor, the
\* summary and the grouped performance never raise.
C8_OnlyValidationFails ==
    /\ (~input.tabular /\ enginePc # "none") =>
          /\ enginePc = "raised"
          /\ df = NoDF
          /\ kpi_summary.pc = "none"
          /\ keyword_performance_df.pc = "none"
    /\ input.tabular =>
          /\ enginePc # "raised"
          /\ kpi_summary.pc # "raised"
          /\ keyword_performance_df.pc # "raised"

\* a dataset with a date that does not parse and with dirty numeric cells, on
\* which the constructor, the summary and the grouping have all completed
C8_Witness ==
    /\ input.tabular
    /\ {DateCol, "Impressions"} \subseteq input.cols
    /\ \E i \in 1..Len(input.rows) : input.rows[i][DateCol] = BadDate
    /\ \E i \in 1..Len(input.rows) : input.rows[i]["Impressions"] = Text("n/a")
    /\ enginePc = "ready"
    /\ kpi_summary.pc = "returned"
    /\ keyword_performance_df.pc = "returned"

(* C9 *)

\* C9: a call of generate_recommendations that follows a completed call on the
\* same instance returns the same list again, and the stored list is that list:
\* it does not grow.
C9_RebuiltOnEveryCall ==
    [][(recPc = "returned" /\ calls' = calls + 1)
          => /\ recPc' = "returned"
             /\ returned' = returned
             /\ recommendations' = returned'
             /\ Len(recommendations') <= Len(recommendations)]_vars

\* a second call that has returned a list of two advisories or more
C9_Witness ==
    /\ recPc = "returned"
    /\ calls >= 2
    /\ Len(returned) >= 2

(* C10 *)

\* C10: a grouped row whose value is exactly on a threshold does not satisfy
\* that condition, so the rule emits nothing for it; and the single input row
\* (Impressions 1000, Clicks 5, Spend 100, Sales 50, Orders 0) yields exactly
\* the rule-1 advisory.
C10_StrictThresholds ==
    recPc = "returned" =>
        /\ \A j \in 1..Len(keyword_data.rows) :
              LET row == keyword_data.rows[j]
                  On(col, k) == col \in keyword_data.cols /\ row[col] = Num(k)
                  None(rule) == AdvisoriesOf(returned, rule, keyword_data, row) = {}
              IN  /\ On("ACOS", 50) => None(1)
                  /\ On("CTR", 1) => None(2)
                  /\ On("Total_Impressions", 1000) => None(2)
                  /\ On("ACOS", 20) => None(3)
                  /\ On("Total_Sales", 100) => None(3)
                  /\ On("Total_Spend", 50) => None(4)
                  /\ On("Total_Clicks", 10) => None(4)
                  /\ On("Total_Orders", 1) => None(4)
        /\ (/\ Len(input.rows) = 1
            /\ NumericColSet \cup {CampaignCol, KeywordCol} \subseteq input.cols
            /\ \A c \in NumericColSet \cup {CampaignCol, KeywordCol} :
                  input.rows[1][c] = ExampleRow[c]
            /\ keyword_data.cols = GroupedCols)
           => returned = <<[rule |-> 1, keyword |-> Text("k1"), campaign |-> Text("A"),
                            shown |-> <<Cell("fmt2", "", 20000, 100)>>]>>

\* the worked example has been run through the engine and the generator
C10_Witness ==
    /\ input = DataFrame(InputCols, <<ExampleRow>>)
    /\ keyword_data.cols = GroupedCols
    /\ keyword_data.rows[1]["Total_Impressions"] = Num(1000)
    /\ recPc = "returned"
    /\ Len(returned) = 1
    /\ returned[1].rule = 1

(* C11 *)

\* every numeric cell of the input counts as a number >= 0
NonNegativeInput ==
    \A i \in 1..Len(input.rows) : \A c \in NumericColSet : InputValue(i, c) >= 0

\* the input has both grouping columns, at least one row, and one pair throughout
SinglePairInput ==
    /\ input.tabular
    /\ {CampaignCol, KeywordCol} \subseteq input.cols
    /\ Len(input.rows) >= 1
    /\ \A i \in 1..Len(input.rows) : InputPair(i) = InputPair(1)

\* C11: for a dataset of non-negative values whose rows all share one
\* (Campaign Name, Keyword or Product Targeting) pair, the grouped table has a
\* single row, and its Total_* values and CTR, CPC, CVR, ACOS, ROAS equal the
\* ten entries of the overall summary.
C11_SingleGroupMatchesSummary ==
    (/\ SinglePairInput
     /\ NonNegativeInput
     /\ kpi_summary.pc = "returned"
     /\ keyword_performance_df.pc = "returned")
    => LET g == keyword_performance_df.val
       IN  /\ Len(g.rows) = 1
           /\ \A i \in 1..5 :
                 /\ g.rows[1][TotalCols[i]] = kpi_summary.val[SummaryTotals[i]]
                 /\ g.rows[1][RatioCols[i]] = kpi_summary.val[SummaryRatios[i]]

(* C12 *)

\* C12: no step changes the caller's dataset, and a call on the
\* RecommendationEngine (generate_recommendations, also when made by
\* get_formatted_recommendations) leaves the grouped table and the summary it
\* was given unchanged.
C12_InputNeverMutated ==
    [][/\ input' = input
       /\ (calls' # calls \/ formatted' # formatted)
             => /\ keyword_data' = keyword_data
                /\ kpi_data' = kpi_data
                /\ keyword_performance_df' = keyword_performance_df
                /\ kpi_summary' = kpi_summary]_vars

\* the engine has preprocessed its own frame into something else than the
\* caller's dataset, and the summary, the grouping and the generator have run
C12_Witness ==
    /\ input.tabular
    /\ Len(input.rows) >= 1
    /\ enginePc = "ready"
    /\ df # Table(input.cols, input.rows)
    /\ kpi_summary.pc = "returned"
    /\ keyword_performance_df.pc = "returned"
    /\ Len(keyword_data.rows) >= 1
    /\ recPc = "returned"
    /\ formatted.pc = "returned"

(* C14 *)

\* C14: a grouped row with Total_Sales = 0 has ACOS = 0 whatever its spend, and
\* ROAS = 0 when Total_Spend = 0 as well; it gets no rule-1 and no rule-3
\* advisory.
C14_ZeroSalesNeverFlagged ==
    /\ keyword_performance_df.pc = "returned" =>
          \A j \in 1..Len(keyword_performance_df.val.rows) :
              LET r == keyword_performance_df.val.rows[j]
              IN  r["Total_Sales"] = Num(0) =>
                      /\ r["ACOS"] = Num(0)
                      /\ r["Total_Spend"] = Num(0) => r["ROAS"] = Num(0)
    /\ recPc = "returned" =>
          \A j \in 1..Len(keyword_data.rows) :
              keyword_performance_df.val.rows[j]["Total_Sales"] = Num(0) =>
                  /\ AdvisoriesOf(returned, 1, keyword_data, keyword_data.rows[j]) = {}
                  /\ AdvisoriesOf(returned, 3, keyword_data, keyword_data.rows[j]) = {}

\* the generator has returned for a table with a row of positive spend and no
\* sales, and a row with neither spend nor sales
C14_Witness ==
    /\ recPc = "returned"
    /\ keyword_data.cols = GroupedCols
    /\ \E j \in 1..Len(keyword_data.rows) :
          /\ keyword_data.rows[j]["Total_Sales"] = Num(0)
          /\ keyword_data.rows[j]["Total_Spend"].n > 50
          /\ keyword_data.rows[j]["ACOS"] = Num(0)
    /\ \E j \in 1..Len(keyword_data.rows) :
          /\ keyword_data.rows[j]["Total_Sales"] = Num(0)
          /\ keyword_data.rows[j]["Total_Spend"] = Num(0)
          /\ keyword_data.rows[j]["ROAS"] = Num(0)

----------------------------------------------------------------------------
(* C13 *)

\* the file's bytes are a CSV with at least one data cell: read_csv returns under
\* some attempted encoding, only decode errors before it, and the table has a row
\* with a non-blank cell
ValidCsv(file) ==
    /\ \E i \in 1..Len(file.outcomes) :
          /\ file.outcomes[i] = "read"
          /\ \A j \in 1..(i - 1) : file.outcomes[j] = "decode_error"
    /\ \E r \in 1..Len(file.table.rows) :
          \E c \in file.table.cols : file.table.rows[r][c].t # "nan"

\* an upload named *.csv (in either letter case) that is stored without an
\* error and is a valid CSV
ValidUpload(file) ==
    /\ file.filename.dot
    /\ file.filename.ext \in {"csv", "CSV"}
    /\ file.save = "ok"
    /\ ValidCsv(file)

----------------------------------------------------------------------------
(* C15 *)

\* the handler is between two files, past the loop, or has answered
BetweenFiles == uploadPc \in {"loop", "analyze", "recommend", "done"}

\* C15: whenever the handler is between two files or past the loop, the file of
\* the iteration just finished is not in the upload folder if its removal did
\* not fail, and the folder holds no file of this request if no removal failed
C15_TempFilesRemoved ==
    BetweenFiles =>
       /\ (fileIdx > 1 /\ request[fileIdx - 1].removeOk)
             => secure_filename(request[fileIdx - 1].filename) \notin upload_folder
       /\ (\A i \in 1..Len(request) : i < fileIdx => request[i].removeOk)
             => upload_folder = {}

\* answered after a save that raised leaving a file behind and a parse error
C15_Witness ==
    /\ uploadPc = "done"
    /\ response.status = 400
    /\ Len(request) = 2
    /\ request[1].save = "partial"
    /\ request[2].save = "ok"
    /\ request[2].outcomes = <<"decode_error", "parse_error">>
    /\ \A i \in 1..2 : request[i].removeOk
    /\ upload_folder = {}

====
